---- MODULE Spec2Model ----
(***************************************************************************)
(* Model of the configurable Snowflake ID generator (snowflake.go).        *)
(*                                                                         *)
(* Every uint64 of the program is modelled at its full width: a value is   *)
(* the set of the positions (0 = least significant .. 63) of its 1 bits.   *)
(* Shifts, masks, the wrapping addition and subtraction and the unsigned   *)
(* comparison are computed on that representation, so the overflow of      *)
(* every 64-bit operation is the overflow of the Go code.                  *)
(***************************************************************************)
EXTENDS Integers, Sequences, FiniteSets

(***************************************************************************)
(* uint64 arithmetic                                                       *)
(***************************************************************************)

\* width of a machine word, and the positions of its bits
WordBits == 64
Bits == 0 .. (WordBits - 1)

\* the set of all uint64 values is SUBSET Bits
Zero == {}
One == {0}
AllOnes == Bits

\* the uint64 with the value of the small natural number n (n < 2^31)
FromNat(n) == {b \in 0 .. 30 : (n \div (2 ^ b)) % 2 = 1}

Bit(x, k) == IF k \in x THEN 1 ELSE 0

\* the value of the 16 bits of x from position lo upward
LimbVal(x, lo) ==
      Bit(x, lo)             + 2 * Bit(x, lo + 1)
    + 4 * Bit(x, lo + 2)     + 8 * Bit(x, lo + 3)
    + 16 * Bit(x, lo + 4)    + 32 * Bit(x, lo + 5)
    + 64 * Bit(x, lo + 6)    + 128 * Bit(x, lo + 7)
    + 256 * Bit(x, lo + 8)   + 512 * Bit(x, lo + 9)
    + 1024 * Bit(x, lo + 10) + 2048 * Bit(x, lo + 11)
    + 4096 * Bit(x, lo + 12) + 8192 * Bit(x, lo + 13)
    + 16384 * Bit(x, lo + 14) + 32768 * Bit(x, lo + 15)

\* the natural number held by a uint64 below 2^16
ToNat(x) == LimbVal(x, 0)

\* Go's shift count: a count of 64 or more shifts every bit out
ShiftCount(s) == IF \E b \in s : b >= 6 THEN WordBits ELSE ToNat(s)

\* x << s on uint64 (and on int64: the same bits)
Shl(x, s) ==
    LET k == ShiftCount(s) IN {b + k : b \in {c \in x : c + k < WordBits}}

\* x >> s on uint64 (logical)
Shr(x, s) ==
    LET k == ShiftCount(s) IN {b - k : b \in {c \in x : c >= k}}

\* ^x, x & y, x | y
Not(x) == Bits \ x
And(x, y) == x \cap y
Or(x, y) == x \cup y

\* the addition is carried out on four limbs of LimbBits bits
LimbBits == WordBits \div 4
LimbBase == 2 ^ LimbBits

\* the bits of the limb value v, placed from position lo upward
LimbSet(v, lo) == {lo + k : k \in {c \in 0 .. (LimbBits - 1) : (v \div (2 ^ c)) % 2 = 1}}

\* a + b + carry, wrapping modulo 2^64
AddBits(a, b, carry) ==
    LET s0 == LimbVal(a, 0) + LimbVal(b, 0) + carry
        s1 == LimbVal(a, LimbBits) + LimbVal(b, LimbBits)
              + (s0 \div LimbBase)
        s2 == LimbVal(a, 2 * LimbBits) + LimbVal(b, 2 * LimbBits)
              + (s1 \div LimbBase)
        s3 == LimbVal(a, 3 * LimbBits) + LimbVal(b, 3 * LimbBits)
              + (s2 \div LimbBase)
    IN LimbSet(s0 % LimbBase, 0) \cup LimbSet(s1 % LimbBase, LimbBits)
       \cup LimbSet(s2 % LimbBase, 2 * LimbBits) \cup LimbSet(s3 % LimbBase, 3 * LimbBits)

\* a + b and a - b on uint64, wrapping modulo 2^64
Add(a, b) == AddBits(a, b, 0)
Sub(a, b) == AddBits(a, Not(b), 1)

\* acc + a * b: one shifted copy of a is added for each 1 bit of b (the test
\* on sum has the partial sum computed before the next step is taken)
RECURSIVE MulBits(_, _, _)
MulBits(a, b, acc) ==
    IF b = {} THEN acc
    ELSE LET k   == CHOOSE c \in b : TRUE
             sum == Add({d + k : d \in {c \in a : c + k < WordBits}}, acc)
         IN IF sum \subseteq Bits THEN MulBits(a, b \ {k}, sum) ELSE Zero

\* a * b on uint64, wrapping modulo 2^64
Mul(a, b) == MulBits(a, b, Zero)

MaxOf(s) == CHOOSE m \in s : \A n \in s : n <= m

\* a < b and a > b as unsigned 64-bit integers
Lt(a, b) == a # b /\ MaxOf((a \ b) \cup (b \ a)) \in b
Gt(a, b) == Lt(b, a)

(***************************************************************************)
(* Program constants                                                       *)
(***************************************************************************)

DefaultMachineBits == 10
DefaultSequenceBits == 12
MaxBits == 63

\* 1e9: nanoseconds per second
NanosPerSecond == 1000000000

(***************************************************************************)
(* Config and New                                                          *)
(***************************************************************************)

NoGenerator == [nil |-> TRUE]

\* the error New returns: "nil", "sum" (bit widths) or "machine" (machine id)
ErrNil == "nil"
ErrSum == "sum"
ErrMachine == "machine"

\* int64(-1) << bits, complemented and converted to uint64
MaskOf(bits) == Not(Shl(AllOnes, bits))

\* Defaulted with the default TimeBits computed from the widths of the Config
\* instead of the widths already defaulted
DefaultedFromConfig(config) ==
    LET machineBits  == IF config.MachineBits = Zero
                        THEN FromNat(DefaultMachineBits) ELSE config.MachineBits
        sequenceBits == IF config.SequenceBits = Zero
                        THEN FromNat(DefaultSequenceBits) ELSE config.SequenceBits
        timeBits     == IF config.TimeBits = Zero
                        THEN Sub(Sub(FromNat(MaxBits), config.MachineBits),
                                 config.SequenceBits)
                        ELSE config.TimeBits
    IN [epochStartNano |-> Mul(config.EpochStartUnixSeconds, FromNat(NanosPerSecond)),
        machineBits    |-> machineBits,
        sequenceBits   |-> sequenceBits,
        timeBits       |-> timeBits]

\* the fields of the Generator after the defaulting of lines 80-98
Defaulted(config) ==
    LET machineBits  == IF config.MachineBits = Zero
                        THEN FromNat(DefaultMachineBits) ELSE config.MachineBits
        sequenceBits == IF config.SequenceBits = Zero
                        THEN FromNat(DefaultSequenceBits) ELSE config.SequenceBits
        timeBits     == IF config.TimeBits = Zero
                        THEN Sub(Sub(FromNat(MaxBits), machineBits), sequenceBits)
                        ELSE config.TimeBits
    IN [epochStartNano |-> Mul(config.EpochStartUnixSeconds, FromNat(NanosPerSecond)),
        machineBits    |-> machineBits,
        sequenceBits   |-> sequenceBits,
        timeBits       |-> timeBits]

\* the check of line 100, in uint64 arithmetic
SumIsMaxBits(res) ==
    Add(Add(res.sequenceBits, res.machineBits), res.timeBits) = FromNat(MaxBits)

\* MachineIDInRange with the comparison >= in place of >
MachineIDBelowMax(config, res) == Lt(config.MachineID, MaskOf(res.machineBits))

\* the check of lines 108-109
MachineIDInRange(config, res) == ~ Gt(config.MachineID, MaskOf(res.machineBits))

\* the Generator of lines 104-117
Built(config, res) ==
    LET machineShift == res.sequenceBits
    IN [nil              |-> FALSE,
        time             |-> Zero,
        seq              |-> Zero,
        machineIDShifted |-> Shl(config.MachineID, machineShift),
        epochStartNano   |-> res.epochStartNano,
        machineBits      |-> res.machineBits,
        sequenceBits     |-> res.sequenceBits,
        timeBits         |-> res.timeBits,
        machineShift     |-> machineShift,
        timeShift        |-> Add(res.sequenceBits, res.machineBits),
        sequenceMask     |-> MaskOf(res.sequenceBits),
        timeMask         |-> MaskOf(res.timeBits),
        nanoSecondsShift |-> Sub(FromNat(WordBits), res.timeBits)]

\* New with the machine id checked before the sum of the widths
NewMachineIDFirst(config) ==
    LET res == Defaulted(config)
    IN IF ~ MachineIDInRange(config, res)
       THEN [gen |-> NoGenerator, err |-> ErrMachine, arg |-> MaskOf(res.machineBits)]
       ELSE IF ~ SumIsMaxBits(res)
       THEN [gen |-> NoGenerator, err |-> ErrSum, arg |-> Zero]
       ELSE [gen |-> Built(config, res), err |-> ErrNil, arg |-> Zero]

\* New(config): the pair (generator, error); arg is the number the machine id
\* error is formatted with ("invalid machine id; must be 0 <= id < %d")
New(config) ==
    LET res == Defaulted(config)
    IN IF ~ SumIsMaxBits(res)
       THEN [gen |-> NoGenerator, err |-> ErrSum, arg |-> Zero]
       ELSE IF ~ MachineIDInRange(config, res)
       THEN [gen |-> NoGenerator, err |-> ErrMachine, arg |-> MaskOf(res.machineBits)]
       ELSE [gen |-> Built(config, res), err |-> ErrNil, arg |-> Zero]

\* Generator.MachineID()
MachineID(this) == Shr(this.machineIDShifted, this.machineShift)

\* Generator.generateTime(), for the clock reading now = uint64(UnixNano())
generateTime(this, now) ==
    And(Shr(Sub(now, this.epochStartNano), this.nanoSecondsShift), this.timeMask)

\* the switch with the exhaustion test one step late
SwitchLateRollover(this, nt) ==
    IF Gt(nt, this.time)
    THEN [this EXCEPT !.time = nt, !.seq = Zero]
    ELSE IF this.seq = Add(this.sequenceMask, One)
    THEN [this EXCEPT !.time = Add(this.time, One), !.seq = Zero]
    ELSE [this EXCEPT !.seq = Add(this.seq, One)]

\* the switch of Next: the generator after the update of time and seq
Switch(this, nt) ==
    IF Gt(nt, this.time)
    THEN [this EXCEPT !.time = nt, !.seq = Zero]
    ELSE IF this.seq = this.sequenceMask
    THEN [this EXCEPT !.time = Add(this.time, One), !.seq = Zero]
    ELSE [this EXCEPT !.seq = Add(this.seq, One)]

\* the identifier Next returns
Compose(this) == Or(Or(Shl(this.time, this.timeShift), this.machineIDShifted), this.seq)

(***************************************************************************)
(* Bounds and inputs                                                       *)
(***************************************************************************)

\* threads sharing the generators
NumThreads == 2
Threads == 1 .. NumThreads

\* Next calls started in one behaviour, over all generators
MaxCalls == 9

\* Next calls started in one behaviour of the two-generator specification
MaxPairCalls == 3

\* Next calls started in one behaviour of the fair specification
MaxFairCalls == 3

\* generator instances: the second one exists in SpecPair only
Gens == {1, 2}

Cfg(id, epoch, mb, sb, tb) ==
    [MachineID             |-> id,
     EpochStartUnixSeconds |-> FromNat(epoch),
     MachineBits           |-> FromNat(mb),
     SequenceBits          |-> FromNat(sb),
     TimeBits              |-> FromNat(tb)]

\* the Config records New is called with
Configs ==
    { Cfg(FromNat(10), 0, 0, 0, 0),        \* the tests' generator
      Cfg(FromNat(1), 0, 0, 0, 0),         \* the README's generator
      Cfg(FromNat(1023), 0, 10, 12, 41),   \* the default layout spelled out, largest id
      Cfg(FromNat(1024), 0, 0, 0, 0),      \* machine id one past the largest
      Cfg(FromNat(1024), 0, 10, 12, 0),
      Cfg(FromNat(0), 0, 5, 5, 5),         \* widths summing to 15
      Cfg(FromNat(1024), 0, 5, 5, 5),      \* ... with an id out of range as well
      Cfg(FromNat(31), 0, 5, 5, 0),
      Cfg(FromNat(32), 0, 5, 5, 53),
      Cfg(FromNat(5), 0, 20, 2, 41),       \* a four-value sequence
      Cfg(FromNat(5), 1, 20, 2, 41),       \* ... with an epoch between the clock readings
      Cfg(FromNat(1), 0, 61, 1, 1),        \* a one-bit time field
      Cfg({39}, 0, 40, 30, 0),             \* MachineBits + SequenceBits = 70
      Cfg({38}, 0, 40, 30, 0),
      Cfg({40}, 0, 40, 30, 0),
      Cfg(FromNat(7), 0, 63, 0, 0) }       \* MachineBits alone = 63

\* further Configs: a time field of no bits (MachineBits + SequenceBits = 63),
\* and a one-bit time field with an epoch later than a clock reading
EdgeConfigs ==
    { Cfg(FromNat(1), 0, 62, 1, 0),
      Cfg(FromNat(1), 1, 61, 1, 1) }

\* Configs whose widths sum to 63 in uint64 only: MachineBits = 2^64 - 1
\* (timeShift wraps to 0), and MachineBits = 2^64 - 2 with a time field of 64
\* bits and an epoch later than the clock readings
WrapConfigs ==
    { [Cfg(FromNat(1), 0, 0, 1, 63) EXCEPT !.MachineBits = AllOnes],
      [Cfg(FromNat(1), 2, 0, 1, 64) EXCEPT !.MachineBits = Sub(AllOnes, One)] }

\* the Configs of the fair specification: the parallel benchmark's generator,
\* a rejected machine id, and a one-bit sequence, whose calls take every case
\* of the switch
FairConfigs ==
    { Cfg(FromNat(1), 0, 0, 0, 0),
      Cfg(FromNat(1024), 0, 0, 0, 0),
      Cfg(FromNat(1), 0, 61, 1, 1) }

\* the clock one nanosecond before the second second after 1970
LateReading == 2 * NanosPerSecond - 1

\* the values of uint64(time.Now().UnixNano()) a call may read
ClockReadings == {Zero, FromNat(LateReading)}

(***************************************************************************)
(* State                                                                   *)
(***************************************************************************)

VARIABLES
    cfg,      \* cfg[i]: the Config generator i is built from
    err,      \* err[i]: "pending" before New, then the error New returned
    errArg,   \* errArg[i]: the number in the message of the machine id error
    g,        \* g[i]: the Generator New returned, or NoGenerator
    mu,       \* mu[i]: the thread holding g[i].mu, or 0
    pc,       \* pc[t]: where thread t is in Next
    on,       \* on[t]: the generator thread t calls Next on
    newTime,  \* newTime[t]: the local newTime of thread t's Next
    before,   \* before[t]: g.time and g.seq as thread t's switch found them,
              \* kept until the call returns
    out,      \* out[i]: the identifiers Next returned on g[i], in order of return
    mid,      \* mid[i]: the results of the MachineID() calls on g[i]
    calls,    \* Next calls started
    limit     \* Next calls this behaviour may start

vars == <<cfg, err, errArg, g, mu, pc, on, newTime, before, out, mid, calls, limit>>

ErrPending == "pending"
ErrUnused == "unused"

InitCommon ==
    /\ g = [i \in Gens |-> NoGenerator]
    /\ mu = [i \in Gens |-> 0]
    /\ pc = [t \in Threads |-> "idle"]
    /\ on = [t \in Threads |-> 1]
    /\ newTime = [t \in Threads |-> Zero]
    /\ before = [t \in Threads |-> [time |-> Zero, seq |-> Zero]]
    /\ errArg = [i \in Gens |-> Zero]
    /\ out = [i \in Gens |-> <<>>]
    /\ mid = [i \in Gens |-> {}]
    /\ calls = 0

\* one generator, shared by the threads
Init ==
    /\ \E c \in Configs : cfg = [i \in Gens |-> c]
    /\ err = [i \in Gens |-> IF i = 1 THEN ErrPending ELSE ErrUnused]
    /\ limit = MaxCalls
    /\ InitCommon

\* one generator, shared by the threads, built from any of the Configs
InitWide ==
    /\ \E c \in Configs \cup EdgeConfigs : cfg = [i \in Gens |-> c]
    /\ err = [i \in Gens |-> IF i = 1 THEN ErrPending ELSE ErrUnused]
    /\ limit = MaxCalls
    /\ InitCommon

\* one generator, built from any Config, the wrapping ones included
InitWrap ==
    /\ \E c \in Configs \cup EdgeConfigs \cup WrapConfigs :
          cfg = [i \in Gens |-> c]
    /\ err = [i \in Gens |-> IF i = 1 THEN ErrPending ELSE ErrUnused]
    /\ limit = MaxCalls
    /\ InitCommon

\* one generator shared by the threads, as in the parallel benchmark
InitFair ==
    /\ \E c \in FairConfigs : cfg = [i \in Gens |-> c]
    /\ err = [i \in Gens |-> IF i = 1 THEN ErrPending ELSE ErrUnused]
    /\ limit = MaxFairCalls
    /\ InitCommon

\* two generators whose Configs differ in the machine id only
InitPair ==
    /\ \E c \in Configs : \E d \in Configs :
          /\ d.MachineID # c.MachineID
          /\ d = [c EXCEPT !.MachineID = d.MachineID]
          /\ cfg = [i \in Gens |-> IF i = 1 THEN c ELSE d]
    /\ err = [i \in Gens |-> ErrPending]
    /\ limit = MaxPairCalls
    /\ InitCommon

(***************************************************************************)
(* Actions                                                                 *)
(***************************************************************************)

\* New(cfg[i])
Construct(i) ==
    /\ err[i] = ErrPending
    /\ g' = [g EXCEPT ![i] = New(cfg[i]).gen]
    /\ err' = [err EXCEPT ![i] = New(cfg[i]).err]
    /\ errArg' = [errArg EXCEPT ![i] = New(cfg[i]).arg]
    /\ UNCHANGED <<cfg, mu, pc, on, newTime, before, out, mid, calls, limit>>

\* thread t calls g[i].Next()
NextCall(t, i) ==
    /\ pc[t] = "idle"
    /\ err[i] = ErrNil
    /\ calls < limit
    /\ pc' = [pc EXCEPT ![t] = "lock"]
    /\ on' = [on EXCEPT ![t] = i]
    /\ calls' = calls + 1
    /\ UNCHANGED <<cfg, err, errArg, g, mu, newTime, before, out, mid, limit>>

\* g.mu.Lock()
Lock(t) ==
    /\ pc[t] = "lock"
    /\ mu[on[t]] = 0
    /\ mu' = [mu EXCEPT ![on[t]] = t]
    /\ pc' = [pc EXCEPT ![t] = "time"]
    /\ UNCHANGED <<cfg, err, errArg, g, on, newTime, before, out, mid, calls, limit>>

\* newTime := g.generateTime()
GenerateTime(t) ==
    /\ pc[t] = "time"
    /\ \E now \in ClockReadings :
          newTime' = [newTime EXCEPT ![t] = generateTime(g[on[t]], now)]
    /\ pc' = [pc EXCEPT ![t] = "switch"]
    /\ UNCHANGED <<cfg, err, errArg, g, mu, on, before, out, mid, calls, limit>>

\* the switch statement
SwitchStep(t) ==
    /\ pc[t] = "switch"
    /\ g' = [g EXCEPT ![on[t]] = Switch(g[on[t]], newTime[t])]
    /\ before' = [before EXCEPT ![t] = [time |-> g[on[t]].time, seq |-> g[on[t]].seq]]
    /\ pc' = [pc EXCEPT ![t] = "return"]
    /\ UNCHANGED <<cfg, err, errArg, mu, on, newTime, out, mid, calls, limit>>

\* Return without the deferred g.mu.Unlock()
ReturnKeepsLock(t) ==
    /\ pc[t] = "return"
    /\ out' = [out EXCEPT ![on[t]] = Append(@, Compose(g[on[t]]))]
    /\ pc' = [pc EXCEPT ![t] = "idle"]
    /\ before' = [before EXCEPT ![t] = [time |-> Zero, seq |-> Zero]]
    /\ UNCHANGED <<cfg, err, errArg, g, mu, on, newTime, mid, calls, limit>>

\* return (g.time << g.timeShift) | g.machineIDShifted | g.seq, then the
\* deferred g.mu.Unlock()
Return(t) ==
    /\ pc[t] = "return"
    /\ out' = [out EXCEPT ![on[t]] = Append(@, Compose(g[on[t]]))]
    /\ mu' = [mu EXCEPT ![on[t]] = 0]
    /\ pc' = [pc EXCEPT ![t] = "idle"]
    /\ before' = [before EXCEPT ![t] = [time |-> Zero, seq |-> Zero]]
    /\ UNCHANGED <<cfg, err, errArg, g, on, newTime, mid, calls, limit>>

\* thread t calls g[i].MachineID(): no lock is taken
MachineIDCall(t, i) ==
    /\ pc[t] = "idle"
    /\ err[i] = ErrNil
    /\ mid' = [mid EXCEPT ![i] = @ \cup {MachineID(g[i])}]
    /\ UNCHANGED <<cfg, err, errArg, g, mu, pc, on, newTime, before, out, calls, limit>>

Next ==
    \/ \E i \in Gens : Construct(i)
    \/ \E t \in Threads : \E i \in Gens : NextCall(t, i)
    \/ \E t \in Threads : Lock(t)
    \/ \E t \in Threads : GenerateTime(t)
    \/ \E t \in Threads : SwitchStep(t)
    \/ \E t \in Threads : Return(t)
    \/ \E t \in Threads : \E i \in Gens : MachineIDCall(t, i)

Spec == Init /\ [][Next]_vars

SpecWide == InitWide /\ [][Next]_vars

SpecPair == InitPair /\ [][Next]_vars

SpecWrap == InitWrap /\ [][Next]_vars

\* a thread inside Next keeps running, and sync.Mutex hands the lock to a
\* waiter that finds it free again and again (its starvation mode)
Fairness ==
    \A t \in Threads :
        /\ SF_vars(Lock(t))
        /\ WF_vars(GenerateTime(t) \/ SwitchStep(t) \/ Return(t))

FairSpec == InitFair /\ [][Next]_vars /\ Fairness

(***************************************************************************)
(* Properties                                                              *)
(***************************************************************************)

\* the generators New has returned
Ready == {i \in Gens : err[i] = ErrNil}

\* the generators New has been called for
Decided == {i \in Gens : err[i] \in {ErrNil, ErrSum, ErrMachine}}

\* x, read as a natural number, is below 2^16
IsSmall(x) == x \subseteq 0 .. (LimbBits - 1)

\* the threads between Lock and Unlock of g[i].mu
Inside(i) == {t \in Threads : on[t] = i /\ pc[t] \in {"time", "switch", "return"}}

\* C1: on one generator, whatever the clock readings are, every identifier
\* Next returns is greater, as an unsigned 64-bit integer, than every
\* identifier that generator returned before
C1_StrictlyIncreasing ==
    \A i \in Gens : \A j \in 1 .. Len(out[i]) : \A k \in 1 .. Len(out[i]) :
        j < k => Lt(out[i][j], out[i][k])

\* C2: no two Next calls on one generator, by any threads in any
\* interleaving, return equal identifiers: there are as many distinct
\* identifiers as completed calls
C2_AllDistinct ==
    \A i \in Gens : Cardinality({out[i][k] : k \in 1 .. Len(out[i])}) = Len(out[i])

\* C3: every identifier Next returns has bit 63 clear, and what lies at
\* timeShift and above (its time field) fits in timeBits bits
C3_TopBitClear ==
    \A i \in Ready : \A k \in 1 .. Len(out[i]) :
        /\ (WordBits - 1) \notin out[i][k]
        /\ Shr(out[i][k], g[i].timeShift) \subseteq g[i].timeMask

\* C4: the machine field of every identifier, (id >> sequenceBits) masked to
\* machineBits bits, is the MachineID of the Config
C4_MachineField ==
    \A i \in Ready : \A k \in 1 .. Len(out[i]) :
        And(Shr(out[i][k], g[i].sequenceBits), MaskOf(g[i].machineBits))
            = cfg[i].MachineID

\* C5: a Generator New returns has, as true integers, bit widths that sum to
\* 63 and a machine id below 2^machineBits; every other Config is refused
C5_TrueLayout ==
    \A i \in Ready :
        /\ IsSmall(g[i].machineBits)
        /\ IsSmall(g[i].sequenceBits)
        /\ IsSmall(g[i].timeBits)
        /\ ToNat(g[i].machineBits) + ToNat(g[i].sequenceBits) + ToNat(g[i].timeBits)
              = MaxBits
        /\ \A b \in cfg[i].MachineID : b < ToNat(g[i].machineBits)

\* the widths New works with, read off the Config
WidthOrDefault(w, d) == IF w = Zero THEN FromNat(d) ELSE w

\* the three widths of Config c after the defaults are applied
WidthsAfterDefaults(c) ==
    LET mb == WidthOrDefault(c.MachineBits, DefaultMachineBits)
        sb == WidthOrDefault(c.SequenceBits, DefaultSequenceBits)
        tb == IF c.TimeBits = Zero
              THEN Sub(FromNat(MaxBits), Add(mb, sb)) ELSE c.TimeBits
    IN <<mb, sb, tb>>

\* machineBits + sequenceBits + timeBits is 63, added as the program adds
\* them (in uint64)
SumsTo63(c) ==
    LET w == WidthsAfterDefaults(c)
    IN Add(w[1], Add(w[2], w[3])) = FromNat(MaxBits)

\* C6: when the widths after defaulting do not add up (as the program adds
\* them, in uint64) to 63, New returns the bit-width-sum error and no
\* Generator, whatever the MachineID is
C6_SumErrorFirst ==
    \A i \in Decided :
        LET w == WidthsAfterDefaults(cfg[i])
        IN /\ ~ SumsTo63(cfg[i]) => (err[i] = ErrSum /\ g[i] = NoGenerator)
           /\ (IsSmall(w[1]) /\ IsSmall(w[2]) /\ IsSmall(w[3])
                 /\ ToNat(w[1]) + ToNat(w[2]) + ToNat(w[3]) # MaxBits)
                => (err[i] = ErrSum /\ g[i] = NoGenerator)

\* a Config with widths summing to 15 and a machine id beyond 5 bits got the
\* bit-width-sum error
C6_Witness ==
    /\ cfg[1].MachineID = FromNat(1024)
    /\ cfg[1].MachineBits = FromNat(5)
    /\ cfg[1].TimeBits = FromNat(5)
    /\ err[1] = ErrSum

\* the machine id has a 1 bit at or above position machineBits: it exceeds
\* 2^machineBits - 1
ExceedsWidth(id, machineBits) ==
    /\ \A b \in machineBits : b < 6
    /\ \E b \in id : b >= ToNat(machineBits)

\* C7: when the widths sum to 63, New fails with the machine-id error exactly
\* when MachineID > 2^machineBits - 1 and returns a Generator otherwise
C7_MachineIDRange ==
    \A i \in Decided :
        SumsTo63(cfg[i]) =>
            LET mb == WidthsAfterDefaults(cfg[i])[1]
            IN /\ err[i] = ErrMachine <=> ExceedsWidth(cfg[i].MachineID, mb)
               /\ err[i] = ErrNil <=> ~ ExceedsWidth(cfg[i].MachineID, mb)
               /\ err[i] = ErrNil <=> g[i] # NoGenerator

\* the largest machine id of 10 machine bits, 1023, was accepted
C7_Witness ==
    /\ cfg[1].MachineID = FromNat(1023)
    /\ err[1] = ErrNil
    /\ g[1].machineBits = FromNat(10)

\* only MachineID is set in the Config
OnlyMachineID(c) ==
    /\ c.MachineBits = Zero
    /\ c.SequenceBits = Zero
    /\ c.TimeBits = Zero

\* C8: a zero MachineBits becomes 10, a zero SequenceBits 12, a zero TimeBits
\* 63 - machineBits - sequenceBits of the defaulted widths (so a Config that
\* leaves TimeBits zero never gets the bit-width-sum error), non-zero widths
\* stay; a Config with only MachineID set gives 41/10/12, shifts 12 and 22
C8_Defaults ==
    \A i \in Decided :
        /\ i \in Ready =>
             /\ g[i].machineBits =
                    WidthOrDefault(cfg[i].MachineBits, DefaultMachineBits)
             /\ g[i].sequenceBits =
                    WidthOrDefault(cfg[i].SequenceBits, DefaultSequenceBits)
             /\ cfg[i].TimeBits # Zero => g[i].timeBits = cfg[i].TimeBits
             /\ cfg[i].TimeBits = Zero =>
                    /\ g[i].timeBits = WidthsAfterDefaults(cfg[i])[3]
                    /\ (IsSmall(g[i].machineBits) /\ IsSmall(g[i].sequenceBits)
                          /\ ToNat(g[i].machineBits) + ToNat(g[i].sequenceBits)
                                <= MaxBits)
                         => /\ IsSmall(g[i].timeBits)
                            /\ ToNat(g[i].timeBits) =
                                  MaxBits - ToNat(g[i].machineBits)
                                          - ToNat(g[i].sequenceBits)
             /\ g[i].machineShift = g[i].sequenceBits
             /\ g[i].timeShift = Add(g[i].sequenceBits, g[i].machineBits)
        /\ OnlyMachineID(cfg[i]) =>
             /\ err[i] # ErrSum
             /\ i \in Ready =>
                  /\ g[i].timeBits = FromNat(41)
                  /\ g[i].machineBits = FromNat(10)
                  /\ g[i].sequenceBits = FromNat(12)
                  /\ g[i].machineShift = FromNat(12)
                  /\ g[i].timeShift = FromNat(22)
        /\ cfg[i].TimeBits = Zero => err[i] # ErrSum

\* New has built the generator of a Config with only MachineID set
C8_Witness ==
    /\ OnlyMachineID(cfg[1])
    /\ err[1] = ErrNil
    /\ g[1].timeBits = FromNat(41)

\* C9: MachineID() returns the MachineID of the Config, before and after any
\* Next calls (that a MachineID() call changes nothing else is the UNCHANGED
\* of MachineIDCall)
C9_MachineIDAccessor ==
    \A i \in Gens : \A m \in mid[i] : m = cfg[i].MachineID

\* C10: two generators of one layout and epoch with different machine ids
\* never return equal identifiers
C10_PairDisjoint ==
    \A j \in 1 .. Len(out[1]) : \A k \in 1 .. Len(out[2]) : out[1][j] # out[2][k]

\* C11: under fair scheduling every started Next call takes the lock, returns
\* an identifier and releases the lock: the lock is held exactly while a call
\* is between Lock and Unlock, every call that has returned has delivered an
\* identifier, and every call in progress comes to its end
C11_NextTerminates ==
    /\ [](\A i \in Gens : (Inside(i) = {}) <=> (mu[i] = 0))
    /\ []((\A t \in Threads : pc[t] = "idle") => Len(out[1]) + Len(out[2]) = calls)
    /\ \A t \in Threads : (pc[t] # "idle") ~> (pc[t] = "idle")

\* every call the behaviour may start has returned and the lock is free
C11_Witness ==
    /\ calls = limit
    /\ Len(out[1]) = limit
    /\ \A t \in Threads : pc[t] = "idle"
    /\ mu[1] = 0

\* the machine ids of the Configs, tried against a rejected Config's widths
CandidateIDs == {c.MachineID : c \in Configs \cup EdgeConfigs}

\* C12: when New rejects a MachineID as out of range, the ids its message
\* "must be 0 <= id < N" admits are exactly the ids New accepts with the same
\* widths (the inclusive range from 0 to 2^machineBits - 1)
C12_ReportedRange ==
    \A i \in Gens :
        err[i] = ErrMachine =>
            \A id \in CandidateIDs :
                Lt(id, errArg[i])
                    <=> (New([cfg[i] EXCEPT !.MachineID = id]).err = ErrNil)

\* C13: no Generator New returns has a field of zero bits, also when
\* MachineBits + SequenceBits = 63 and TimeBits is left zero
C13_NoZeroWidth ==
    \A i \in Ready :
        /\ g[i].machineBits # Zero
        /\ g[i].sequenceBits # Zero
        /\ g[i].timeBits # Zero

\* the threads whose call has run the switch and not yet returned
Switched == {t \in Threads : pc[t] = "return"}

\* the bits of identifier id above the machine and sequence fields
TimeField(this, id) == Shr(id, this.timeShift)

\* C14: a call that reads newTime <= lastTime while seq = sequenceMask sets
\* lastTime to lastTime + 1 and seq to 0, and the time field of the identifier
\* it returns is greater than that of the previous identifier
C14_RolloverAdvancesTime ==
    \A t \in Switched :
        LET this == g[on[t]]
            ids == out[on[t]]
        IN (~ Gt(newTime[t], before[t].time) /\ before[t].seq = this.sequenceMask)
              => /\ this.time = Add(before[t].time, One)
                 /\ this.seq = Zero
                 /\ Len(ids) > 0 =>
                        Gt(TimeField(this, Compose(this)),
                           TimeField(this, ids[Len(ids)]))

\* the last identifier generator i returned (Zero before the first)
Previous(i) == IF Len(out[i]) = 0 THEN Zero ELSE out[i][Len(out[i])]

\* C15: a call that reads newTime <= lastTime (same tick, or the clock moved
\* backward) while seq < sequenceMask adds exactly 1 to seq and leaves
\* lastTime unchanged, so the identifier it returns is the previous one plus 1
C15_SameTickIncrement ==
    \A t \in Switched :
        LET this == g[on[t]]
        IN (~ Gt(newTime[t], before[t].time) /\ Lt(before[t].seq, this.sequenceMask))
              => /\ this.seq = Add(before[t].seq, One)
                 /\ this.time = before[t].time
                 /\ Len(out[on[t]]) > 0 =>
                        Compose(this) = Add(Previous(on[t]), One)

\* C16: lastTime never decreases: after the switch of every Next call, with
\* any clock reading, it is greater than or equal to lastTime before the call
C16_LastTimeNeverDecreases ==
    \A t \in Switched : ~ Lt(g[on[t]].time, before[t].time)

\* C17: a call that changes lastTime leaves seq = 0 and returns an identifier
\* whose sequence field is 0; seq is non-zero after a call only if the call
\* left lastTime unchanged
C17_SeqResetOnTimeChange ==
    \A t \in Switched :
        LET this == g[on[t]]
        IN /\ this.time # before[t].time =>
                /\ this.seq = Zero
                /\ And(Compose(this), this.sequenceMask) = Zero
           /\ this.seq # Zero => this.time = before[t].time

\* C18: one Next call is a single critical section: at most one thread is
\* between Lock and Unlock of a generator, and the identifier of a call is
\* greater than the identifier of every call that took the lock before it
C18_CriticalSectionOrder ==
    /\ \A i \in Gens : Cardinality(Inside(i)) <= 1
    /\ \A t \in Switched :
          \A k \in 1 .. Len(out[on[t]]) :
              Lt(out[on[t]][k], Compose(g[on[t]]))

\* C19: in every state of a Generator New returned, 0 <= seq <= sequenceMask,
\* so seq has no bit outside the sequence field and none at or above
\* machineShift, where the machine id is OR-ed into an identifier
C19_SeqWithinMask ==
    \A i \in Ready :
        /\ ~ Gt(g[i].seq, g[i].sequenceMask)
        /\ And(g[i].seq, Not(g[i].sequenceMask)) = Zero
        /\ Shr(g[i].seq, g[i].machineShift) = Zero

\* a call found seq at sequenceMask and reset it after an earlier identifier
C19_Witness ==
    \E t \in Switched :
        /\ before[t].seq = g[on[t]].sequenceMask
        /\ g[on[t]].seq = Zero
        /\ g[on[t]].time = Add(before[t].time, One)
        /\ Len(out[on[t]]) > 0

\* C20: after the switch of every Next call lastTime, and with it the time
\* field of the identifier the call returns, is greater than or equal to the
\* truncated clock value newTime the call read
C20_TimeNotBehindReading ==
    \A t \in Switched :
        LET this == g[on[t]]
        IN /\ ~ Lt(this.time, newTime[t])
           /\ ~ Lt(TimeField(this, Compose(this)), newTime[t])
====
